---- MODULE Spec2Model ----
(***************************************************************************)
(* A model of housekeeper, an HPC job management library.                  *)
(*                                                                         *)
(*   - the engine (housekeeper/core.py, class Housekeeper): submit,        *)
(*     status, cancel, retry and wait_and_check, each split at its calls   *)
(*     to the scheduler backend and to the job database, which are the     *)
(*     only points where concurrent callers can interleave;                *)
(*   - the failure classifier (tracking/failure_detector.py) with the log  *)
(*     parser it calls (tracking/log_parser.py);                           *)
(*   - the two whitelist matchers (log_checker.py, log_parser.py).         *)
(***************************************************************************)
EXTENDS Integers, Sequences, FiniteSets, TLC

(***************************************************************************)
(* Bounds of the model.                                                    *)
(***************************************************************************)
\* Job records a run creates.
MaxJobs == 2
\* Largest max_retries a caller passes to submit.
MaxRetries == 1

\* The callers of the concurrent specification, and the single caller of
\* the sequential one.
Threads == {"t1", "t2"}
MainThread == {"t1"}

\* Internal ids (the retry-chain specification creates one record more);
\* the scheduler handle of record i is modelled as i (the scheduler hands
\* out a distinct id per successful submission), 0 is Python's None.
Ids == 1..(MaxJobs + 1)
Handles == Ids

(***************************************************************************)
(* job.py                                                                  *)
(***************************************************************************)
JobState == {"pending", "submitted", "running", "completed", "failed",
             "cancelled", "unknown"}

\* Job.is_done with UNKNOWN counted as done.
is_done_with_unknown(job) ==
    job.state \in {"completed", "failed", "cancelled", "unknown"}

\* Job.is_done
is_done(job) == job.state \in {"completed", "failed", "cancelled"}

\* Python's None where a Job is expected.
None == [internal_id |-> 0, job_id |-> 0, state |-> "None", attempt |-> 0,
         max_retries |-> 0, after_ok |-> {}, after_any |-> {},
         script_path |-> <<>>]

\* The script path of a job submitted under the name the caller gives:
\* jobs_dir/name/name.sh.  Every submit of the model is given the same name,
\* and retry adds _retry<attempt> to the name once per retry, so a path is
\* written as the attempts added to it.
NamedPath == <<>>

\* The dataclass Job with its defaults (state PENDING, attempt 1).
Job(internal_id, job_id, max_retries, after_ok, after_any) ==
    [internal_id |-> internal_id, job_id |-> job_id, state |-> "pending",
     attempt |-> 1, max_retries |-> max_retries,
     after_ok |-> after_ok, after_any |-> after_any,
     script_path |-> NamedPath]

(***************************************************************************)
(* The scheduler backend (scheduler/base.py, pbs.py, slurm.py).  Its       *)
(* answers depend on the cluster, so each call draws one of them.          *)
(***************************************************************************)
\* What get_status can return.
BackendStatus == {"pending", "running", "completed", "failed", "unknown"}

\* JobState(status_str) if status_str in [s.value for s in JobState]
\* else JobState.UNKNOWN
to_job_state(status_str) ==
    IF status_str \in JobState THEN status_str ELSE "unknown"

(***************************************************************************)
(* The job database used by the engine (JobDatabase): one record per       *)
(* internal id.                                                            *)
(***************************************************************************)
\* db.save_job(job): insert or replace the record of job.internal_id.
save_job(d, job) ==
    IF job.internal_id \in Ids THEN [d EXCEPT ![job.internal_id] = job] ELSE d

\* db.get_job_by_scheduler_id(job_id)
get_job_by_scheduler_id(d, h) ==
    IF \E i \in Ids : d[i] # None /\ d[i].job_id = h
    THEN d[CHOOSE i \in Ids : d[i] # None /\ d[i].job_id = h]
    ELSE None

\* db.get_active_jobs(): the records that are not in a terminal state.
get_active_jobs(d) == {d[i] : i \in {k \in Ids : d[k] # None /\ ~is_done(d[k])}}

\* db.get_jobs_by_state(state)
get_jobs_by_state(d, state) ==
    {d[i] : i \in {k \in Ids : d[k] # None /\ d[k].state = state}}

\* db.delete_job(internal_id)
delete_job(d, internal_id) ==
    IF internal_id \in Ids THEN [d EXCEPT ![internal_id] = None] ELSE d

\* db.clear_all()
clear_all(d) == [i \in Ids |-> None]

VARIABLES
    db,           \* the job database: internal id -> Job or None
    nextId,       \* the next fresh internal id (uuid4)
    th,           \* each caller: program counter and locals
    submitCalls,  \* history: backend submit calls per internal id
    root,         \* history: the first attempt of each record's retry chain
    detection,    \* failure_detector.detect: the job given and the verdict
    matching,     \* is_whitelisted: the arguments given and the results
    store,        \* database.py: the two tables and the last call made
    scheduler,    \* SLURMScheduler.get_status: the tool outputs and the answer
    script        \* the script files under jobs_dir: path -> the job written

vars == <<db, nextId, th, submitCalls, root, detection, matching, store,
          scheduler, script>>

\* No script file has been written under jobs_dir.
NoScripts == [p \in {} |-> 0]

\* Lines 189-190: open(script_path, 'w') and write: the file at the path
\* now holds the script built for this job, whatever it held before.
write_script(files, job) ==
    [p \in DOMAIN files \cup {job.script_path} |->
        IF p = job.script_path THEN job.internal_id ELSE files[p]]

\* No call of detect, or of is_whitelisted, is being looked at.
NoCall == [pc |-> "none"]
\* No database file is open.
NoStore == [pc |-> "none"]

\* A caller between two calls: its locals are gone, op and ret keep the
\* name and the return value of its last call.
Returned(op, ret) == [pc |-> "idle", op |-> op, h |-> 0, job |-> None,
                      old |-> None, ret |-> ret]
Idle == Returned("none", "none")

Init ==
    /\ db = [i \in Ids |-> None]
    /\ nextId = 1
    /\ th = [t \in Threads |-> Idle]
    /\ submitCalls = [i \in Ids |-> 0]
    /\ root = [i \in Ids |-> i]
    /\ detection = NoCall
    /\ matching = NoCall
    /\ store = NoStore
    /\ scheduler = NoCall
    /\ script = NoScripts

(***************************************************************************)
(* core.py, Housekeeper.submit                                             *)
(***************************************************************************)
\* The dependency arguments a caller can pass: none, or one predecessor
\* handle in after_ok or in after_any.
NoDeps == {<<{}, {}>>}
OneDep == NoDeps \cup {<<{h}, {}>> : h \in Handles}
                 \cup {<<{}, {h}>> : h \in Handles}

\* Lines 154-213: a fresh internal id and a Job object in state PENDING.
submit_begin(t, deps, cap) ==
    /\ th[t].pc = "idle"
    /\ nextId <= cap
    /\ \E max_retries \in 0..MaxRetries, d \in deps :
         th' = [th EXCEPT ![t] =
                  [pc |-> "submit_sched", op |-> "submit", h |-> 0,
                   job |-> Job(nextId, 0, max_retries, d[1], d[2]),
                   old |-> None, ret |-> "none"]]
    /\ script' = write_script(script, Job(nextId, 0, 0, {}, {}))
    /\ nextId' = nextId + 1
    /\ UNCHANGED <<db, submitCalls, root, detection, matching, store, scheduler>>

\* submit(command, name): every other argument at its default.
submit_defaults_begin(t, cap) ==
    /\ th[t].pc = "idle"
    /\ nextId <= cap
    /\ th' = [th EXCEPT ![t] =
                [pc |-> "submit_sched", op |-> "submit", h |-> 0,
                 job |-> Job(nextId, 0, 0, {}, {}),
                 old |-> None, ret |-> "none"]]
    /\ script' = write_script(script, Job(nextId, 0, 0, {}, {}))
    /\ nextId' = nextId + 1
    /\ UNCHANGED <<db, submitCalls, root, detection, matching, store, scheduler>>

\* Lines 215-223 without the else branch: a job the backend refused keeps
\* the state it was built with.
submit_sched_no_else(t) ==
    /\ th[t].pc = "submit_sched"
    /\ \E accepted \in BOOLEAN :
         LET job == th[t].job
             job_id == IF accepted THEN job.internal_id ELSE 0
         IN  th' = [th EXCEPT ![t].pc = "submit_save",
                              ![t].job =
                                 IF job_id # 0
                                 THEN [job EXCEPT !.job_id = job_id,
                                                  !.state = "submitted"]
                                 ELSE job]
    /\ submitCalls' = [submitCalls EXCEPT ![th[t].job.internal_id] = @ + 1]
    /\ UNCHANGED <<db, nextId, root, detection, matching, store, scheduler, script>>

\* Lines 215-223: the backend call; it yields a handle or nothing.
submit_sched(t) ==
    /\ th[t].pc = "submit_sched"
    /\ \E accepted \in BOOLEAN :
         LET job == th[t].job
             job_id == IF accepted THEN job.internal_id ELSE 0
         IN  th' = [th EXCEPT ![t].pc = "submit_save",
                              ![t].job =
                                 IF job_id # 0
                                 THEN [job EXCEPT !.job_id = job_id,
                                                  !.state = "submitted"]
                                 ELSE [job EXCEPT !.state = "failed"]]
    /\ submitCalls' = [submitCalls EXCEPT ![th[t].job.internal_id] = @ + 1]
    /\ UNCHANGED <<db, nextId, root, detection, matching, store, scheduler, script>>

\* Lines 225-228: save the record and return it (to the caller, or to retry).
submit_save(t) ==
    /\ th[t].pc = "submit_save"
    /\ db' = save_job(db, th[t].job)
    /\ th' = [th EXCEPT ![t] = IF th[t].op = "retry"
                                THEN [th[t] EXCEPT !.pc = "retry_save"]
                                ELSE Returned("submit", "job")]
    /\ UNCHANGED <<nextId, submitCalls, root, detection, matching, store, scheduler, script>>

(***************************************************************************)
(* core.py, Housekeeper.retry                                              *)
(***************************************************************************)
\* The budget test off by one (> for >=): one retry too many is granted.
retry_denied_off_by_one(old_job) == old_job.attempt > old_job.max_retries + 1

\* Line 398: the retry budget is used up.
retry_denied(old_job) == old_job.attempt >= old_job.max_retries + 1

\* Line 383: a caller asks for a retry of the job with this handle.
retry_begin(t) ==
    /\ th[t].pc = "idle"
    /\ \E job_id \in Handles :
         th' = [th EXCEPT ![t] =
                  [pc |-> "retry_get", op |-> "retry", h |-> job_id,
                   job |-> None, old |-> None, ret |-> "none"]]
    /\ UNCHANGED <<db, nextId, submitCalls, root, detection, matching, store, scheduler, script>>

\* Lines 393-412: look the old job up, return None when it is missing or
\* out of budget, else enter submit with the old job's parameters.
retry_get(t, cap) ==
    /\ th[t].pc = "retry_get"
    /\ LET old_job == get_job_by_scheduler_id(db, th[t].h) IN
       IF old_job = None \/ retry_denied(old_job)
       THEN /\ th' = [th EXCEPT ![t] = Returned("retry", "None")]
            /\ UNCHANGED <<nextId, root, script>>
       ELSE /\ nextId <= cap
            /\ LET job == [Job(nextId, 0, old_job.max_retries, {}, {})
                             EXCEPT !.script_path =
                                Append(old_job.script_path, old_job.attempt)]
               IN  /\ th' = [th EXCEPT ![t] =
                              [th[t] EXCEPT !.pc = "submit_sched",
                                            !.job = job,
                                            !.old = old_job]]
                   /\ script' = write_script(script, job)
            /\ nextId' = nextId + 1
            /\ root' = [root EXCEPT ![nextId] = root[old_job.internal_id]]
    /\ UNCHANGED <<db, submitCalls, detection, matching, store, scheduler>>

\* Lines 414-417 with the attempt raised by two.
retry_save_plus_two(t) ==
    /\ th[t].pc = "retry_save"
    /\ LET new_job == [th[t].job EXCEPT !.attempt = th[t].old.attempt + 2]
       IN  /\ db' = save_job(db, new_job)
           /\ th' = [th EXCEPT ![t] = Returned("retry", "job")]
    /\ UNCHANGED <<nextId, submitCalls, root, detection, matching, store, scheduler, script>>

\* Lines 414-417: set the new job's attempt, save it again, return it.
retry_save(t) ==
    /\ th[t].pc = "retry_save"
    /\ LET new_job == [th[t].job EXCEPT !.attempt = th[t].old.attempt + 1]
       IN  /\ db' = save_job(db, new_job)
           /\ th' = [th EXCEPT ![t] = Returned("retry", "job")]
    /\ UNCHANGED <<nextId, submitCalls, root, detection, matching, store, scheduler, script>>

(***************************************************************************)
(* job.py and core.py: what Housekeeper.wait does with a polled job        *)
(***************************************************************************)
\* results[job_id] = job
with_result(results, job_id, job) ==
    [j \in DOMAIN results \cup {job_id} |->
        IF j = job_id THEN job.state ELSE results[j]]

\* Lines 336-338 with a job that is_done ending the sweep: the ids not yet
\* polled in this sweep are dropped.
wait_polled_stops_sweep(w, job) ==
    IF is_done(job)
    THEN [w EXCEPT !.pc = "wait_sweep", !.todo = {},
                   !.pending = @ \ {w.h},
                   !.results = with_result(@, w.h, job)]
    ELSE [w EXCEPT !.pc = "wait_sweep", !.todo = @ \ {w.h}]

\* Lines 334-338: the job polled in a sweep; a job that is_done leaves
\* pending and enters results.
wait_polled(w, job) ==
    IF is_done(job)
    THEN [w EXCEPT !.pc = "wait_sweep", !.todo = @ \ {w.h},
                   !.pending = @ \ {w.h},
                   !.results = with_result(@, w.h, job)]
    ELSE [w EXCEPT !.pc = "wait_sweep", !.todo = @ \ {w.h}]

\* Lines 343-345 without the assignment to results.
wait_rest_polled_no_result(w, job) ==
    [w EXCEPT !.pc = "wait_rest", !.pending = @ \ {w.h}]

\* Lines 343-345: a job left pending gets the result of one more status
\* call; pending also serves as the position of this loop.
wait_rest_polled(w, job) ==
    [w EXCEPT !.pc = "wait_rest", !.pending = @ \ {w.h},
              !.results = with_result(@, w.h, job)]

(***************************************************************************)
(* core.py, Housekeeper.status, and the polls of Housekeeper.wait          *)
(***************************************************************************)
\* Lines 281-285: the stored job, or a minimal Job for an unknown handle.
status_get(t, op, job_id) ==
    LET found == get_job_by_scheduler_id(db, job_id) IN
    th' = [th EXCEPT ![t] =
             [pc |-> "status_sched", op |-> op, h |-> job_id,
              job |-> IF found = None THEN Job(0, job_id, 0, {}, {}) ELSE found,
              old |-> None, ret |-> "none"]]

status_begin(t) ==
    /\ th[t].pc = "idle"
    /\ \E job_id \in Handles : status_get(t, "status", job_id)
    /\ UNCHANGED <<db, nextId, submitCalls, root, detection, matching, store, scheduler, script>>

\* Lines 287-289: the backend's answer becomes the job's state.
status_sched(t) ==
    /\ th[t].pc = "status_sched"
    /\ \E status_str \in BackendStatus :
         th' = [th EXCEPT ![t].pc = "status_save",
                          ![t].job.state = to_job_state(status_str)]
    /\ UNCHANGED <<db, nextId, submitCalls, root, detection, matching, store, scheduler, script>>

\* Lines 297-301: save a tracked job; then return, or go on in wait's loop
\* (lines 333-345).
status_save(t) ==
    /\ th[t].pc = "status_save"
    /\ db' = IF th[t].job.internal_id # 0 THEN save_job(db, th[t].job) ELSE db
    /\ th' = [th EXCEPT ![t] =
                CASE th[t].op = "status" -> Returned("status", "job")
                  [] th[t].op = "wait_final" -> [th[t] EXCEPT !.pc = "check"]
                  [] th[t].op = "poll" -> wait_polled(th[t], th[t].job)
                  [] th[t].op = "poll_rest" -> wait_rest_polled(th[t], th[t].job)
                  [] OTHER -> [th[t] EXCEPT !.pc = IF is_done(th[t].job)
                                                   THEN "check"
                                                   ELSE "wait_loop"]]
    /\ UNCHANGED <<nextId, submitCalls, root, detection, matching, store, scheduler, script>>

(***************************************************************************)
(* core.py, Housekeeper.wait_and_check (with the wait it calls, for one    *)
(* job id)                                                                 *)
(***************************************************************************)
\* Lines 515, 322-334: the first poll of wait.
wait_and_check_begin(t) ==
    /\ th[t].pc = "idle"
    /\ \E job_id \in Handles : status_get(t, "wait", job_id)
    /\ UNCHANGED <<db, nextId, submitCalls, root, detection, matching, store, scheduler, script>>

\* Lines 329-345: the job is not done; poll again, or the timeout has
\* expired and one last status call fills the result.
wait_loop(t) ==
    /\ th[t].pc = "wait_loop"
    /\ \/ status_get(t, "wait", th[t].h)
       \/ status_get(t, "wait_final", th[t].h)
    /\ UNCHANGED <<db, nextId, submitCalls, root, detection, matching, store, scheduler, script>>

\* Lines 517-529: the log check; a completed job with a bad log is saved
\* as failed.
wait_and_check_check(t) ==
    /\ th[t].pc = "check"
    /\ \E log_success \in BOOLEAN :
         IF ~log_success /\ th[t].job.state = "completed"
         THEN db' = save_job(db, [th[t].job EXCEPT !.state = "failed"])
         ELSE db' = db
    /\ th' = [th EXCEPT ![t] = Returned("wait_and_check", "job")]
    /\ UNCHANGED <<nextId, submitCalls, root, detection, matching, store, scheduler, script>>

(***************************************************************************)
(* core.py, Housekeeper.cancel                                             *)
(***************************************************************************)
\* Line 370: cancel returns True, to the caller or to cancel_all, which
\* counts it (lines 378-379).
cancel_return(c) ==
    IF c.op = "cancel_all"
    THEN [c EXCEPT !.pc = "cancel_all_loop", !.h = 0, !.job = None,
                   !.cancelled = @ + 1]
    ELSE Returned("cancel", "True")

\* Line 359: a caller asks for the cancellation of the job with this handle.
cancel_begin(t) ==
    /\ th[t].pc = "idle"
    /\ \E job_id \in Handles :
         th' = [th EXCEPT ![t] =
                  [pc |-> "cancel_sched", op |-> "cancel", h |-> job_id,
                   job |-> None, old |-> None, ret |-> "none"]]
    /\ UNCHANGED <<db, nextId, submitCalls, root, detection, matching, store, scheduler, script>>

\* Lines 361-363, 370: the backend's cancel; on failure return False.
cancel_sched(t) ==
    /\ th[t].pc = "cancel_sched"
    /\ \E success \in BOOLEAN :
         th' = [th EXCEPT ![t] =
                  IF success
                  THEN [th[t] EXCEPT !.pc = "cancel_get"]
                  ELSE Returned("cancel", "False")]
    /\ UNCHANGED <<db, nextId, submitCalls, root, detection, matching, store, scheduler, script>>

\* Lines 364-366 without the assignment of CANCELLED.
cancel_get_keeps_state(t) ==
    /\ th[t].pc = "cancel_get"
    /\ LET job == get_job_by_scheduler_id(db, th[t].h) IN
       th' = [th EXCEPT ![t] =
                IF job = None
                THEN cancel_return(th[t])
                ELSE [th[t] EXCEPT !.pc = "cancel_save", !.job = job]]
    /\ UNCHANGED <<db, nextId, submitCalls, root, detection, matching, store, scheduler, script>>

\* Lines 364-368 with a record made up for a job that is not stored.
cancel_get_creates_record(t) ==
    /\ th[t].pc = "cancel_get"
    /\ LET job == get_job_by_scheduler_id(db, th[t].h) IN
       th' = [th EXCEPT ![t] =
                [th[t] EXCEPT
                   !.pc = "cancel_save",
                   !.job = IF job = None
                           THEN [None EXCEPT !.internal_id = th[t].h,
                                             !.job_id = th[t].h,
                                             !.state = "cancelled"]
                           ELSE [job EXCEPT !.state = "cancelled"]]]
    /\ UNCHANGED <<db, nextId, submitCalls, root, detection, matching, store, scheduler, script>>

\* Lines 364-366: read the stored job and mark the copy cancelled.
cancel_get(t) ==
    /\ th[t].pc = "cancel_get"
    /\ LET job == get_job_by_scheduler_id(db, th[t].h) IN
       th' = [th EXCEPT ![t] =
                IF job = None
                THEN cancel_return(th[t])
                ELSE [th[t] EXCEPT !.pc = "cancel_save",
                                   !.job = [job EXCEPT !.state = "cancelled"]]]
    /\ UNCHANGED <<db, nextId, submitCalls, root, detection, matching, store, scheduler, script>>

\* Lines 368-370 with the record deleted instead of saved.
cancel_save_deletes(t) ==
    /\ th[t].pc = "cancel_save"
    /\ db' = delete_job(db, th[t].job.internal_id)
    /\ th' = [th EXCEPT ![t] = cancel_return(th[t])]
    /\ UNCHANGED <<nextId, submitCalls, root, detection, matching, store, scheduler, script>>

\* Lines 368-370: save the copy and return True.
cancel_save(t) ==
    /\ th[t].pc = "cancel_save"
    /\ db' = save_job(db, th[t].job)
    /\ th' = [th EXCEPT ![t] = cancel_return(th[t])]
    /\ UNCHANGED <<nextId, submitCalls, root, detection, matching, store, scheduler, script>>

(***************************************************************************)
(* core.py, Housekeeper.wait over a list of job ids.  Time is counted in   *)
(* sleeps of poll_interval.                                                *)
(***************************************************************************)
\* Largest timeout, in poll intervals, a caller passes to wait.
MaxTimeout == 1
\* Job ids a caller passes to one wait.
MaxWaitIds == 2

\* timeout=None
NoTimeout == -1
Timeouts == {NoTimeout} \cup (0..MaxTimeout)

\* "if timeout and (time.time() - start_time) > timeout"
timed_out(timeout, elapsed) ==
    timeout # NoTimeout /\ timeout # 0 /\ elapsed > timeout

\* The locals of wait: the ids asked for, the ids still pending, the ids
\* still to poll in this sweep, the results, the timeout, the time elapsed,
\* and whether the loop was left because the timeout expired.
WaitLocals(job_ids, timeout) ==
    [pc |-> "wait_head", op |-> "wait", h |-> 0, job |-> None, old |-> None,
     ret |-> "none", job_ids |-> job_ids, pending |-> job_ids, todo |-> {},
     results |-> <<>>, timeout |-> timeout, elapsed |-> 0, expired |-> FALSE]

\* Lines 322-327: a caller passes at most max_ids job ids and one of the
\* timeouts.
wait_begin(t, max_ids, timeouts) ==
    /\ th[t].pc = "idle"
    /\ \E job_ids \in {ids \in SUBSET Handles : Cardinality(ids) <= max_ids},
          timeout \in timeouts :
         th' = [th EXCEPT ![t] = WaitLocals(job_ids, timeout)]
    /\ UNCHANGED <<db, nextId, submitCalls, root, detection, matching, store, scheduler, script>>

\* Lines 329-333: the loop test, the timeout test and the start of a sweep
\* over list(pending).
wait_head(t) ==
    /\ th[t].pc = "wait_head"
    /\ th' = [th EXCEPT ![t] =
                IF th[t].pending = {}
                THEN [th[t] EXCEPT !.pc = "wait_rest"]
                ELSE IF timed_out(th[t].timeout, th[t].elapsed)
                THEN [th[t] EXCEPT !.pc = "wait_rest", !.expired = TRUE]
                ELSE [th[t] EXCEPT !.pc = "wait_sweep", !.todo = th[t].pending]]
    /\ UNCHANGED <<db, nextId, submitCalls, root, detection, matching, store, scheduler, script>>

\* A status call made by wait: lines 281-285 for wait's job_id.
wait_status_get(w, op, job_id) ==
    LET found == get_job_by_scheduler_id(db, job_id) IN
    [w EXCEPT !.pc = "status_sched", !.op = op, !.h = job_id,
              !.job = IF found = None THEN Job(0, job_id, 0, {}, {}) ELSE found]

\* Lines 333-334, 340-341: poll the next id of the sweep; after the sweep
\* sleep for poll_interval if ids are left pending.  The time elapsed is
\* counted up to the first value at which the timeout test succeeds, and
\* not at all when that test cannot succeed.
wait_sweep(t) ==
    /\ th[t].pc = "wait_sweep"
    /\ IF th[t].todo = {}
       THEN th' = [th EXCEPT ![t] =
                     [th[t] EXCEPT
                        !.pc = "wait_head", !.op = "wait", !.h = 0,
                        !.job = None,
                        !.elapsed = IF th[t].pending # {}
                                       /\ th[t].elapsed <= th[t].timeout
                                    THEN @ + 1 ELSE @]]
       ELSE \E job_id \in th[t].todo :
              th' = [th EXCEPT ![t] = wait_status_get(th[t], "poll", job_id)]
    /\ UNCHANGED <<db, nextId, submitCalls, root, detection, matching, store, scheduler, script>>

\* Lines 343-347: one more status call for every id left pending, then
\* return the results.
wait_rest(t) ==
    /\ th[t].pc = "wait_rest"
    /\ IF th[t].pending = {}
       THEN th' = [th EXCEPT ![t] = Returned("wait", "results")]
       ELSE \E job_id \in th[t].pending :
              th' = [th EXCEPT ![t] =
                       wait_status_get(th[t], "poll_rest", job_id)]
    /\ UNCHANGED <<db, nextId, submitCalls, root, detection, matching, store, scheduler, script>>

(***************************************************************************)
(* core.py, Housekeeper.cancel_all                                         *)
(***************************************************************************)
\* Lines 374-375: the active jobs as read now, and a count of 0.
cancel_all_begin(t) ==
    /\ th[t].pc = "idle"
    /\ th' = [th EXCEPT ![t] =
                [pc |-> "cancel_all_loop", op |-> "cancel_all", h |-> 0,
                 job |-> None, old |-> None, ret |-> "none",
                 todo |-> get_active_jobs(db), cancelled |-> 0]]
    /\ UNCHANGED <<db, nextId, submitCalls, root, detection, matching, store, scheduler, script>>

\* Lines 377-381, 361-363: the next active job; one without a handle is
\* skipped, else the backend's cancel is called, and its failure is cancel
\* returning False.  After the last job return the count.
cancel_all_loop(t) ==
    /\ th[t].pc = "cancel_all_loop"
    /\ IF th[t].todo = {}
       THEN th' = [th EXCEPT ![t] = Returned("cancel_all", th[t].cancelled)]
       ELSE \E job \in th[t].todo, success \in BOOLEAN :
              th' = [th EXCEPT ![t] =
                       IF job.job_id # 0 /\ success
                       THEN [th[t] EXCEPT !.pc = "cancel_get",
                                          !.h = job.job_id,
                                          !.todo = @ \ {job}]
                       ELSE [th[t] EXCEPT !.todo = @ \ {job}]]
    /\ UNCHANGED <<db, nextId, submitCalls, root, detection, matching, store, scheduler, script>>

(***************************************************************************)
(* core.py, Housekeeper.clear_completed and clear_all; the database's      *)
(* delete_job                                                              *)
(***************************************************************************)
\* Line 443: the completed jobs as read now.
clear_completed_begin(t) ==
    /\ th[t].pc = "idle"
    /\ th' = [th EXCEPT ![t] =
                [pc |-> "clear_completed_loop", op |-> "clear_completed",
                 h |-> 0, job |-> None, old |-> None, ret |-> "none",
                 todo |-> get_jobs_by_state(db, "completed")]]
    /\ UNCHANGED <<db, nextId, submitCalls, root, detection, matching, store, scheduler, script>>

\* Lines 444-445: delete the next of them.
clear_completed_loop(t) ==
    /\ th[t].pc = "clear_completed_loop"
    /\ IF th[t].todo = {}
       THEN /\ th' = [th EXCEPT ![t] = Returned("clear_completed", "None")]
            /\ db' = db
       ELSE \E job \in th[t].todo :
              /\ db' = delete_job(db, job.internal_id)
              /\ th' = [th EXCEPT ![t].todo = @ \ {job}]
    /\ UNCHANGED <<nextId, submitCalls, root, detection, matching, store, scheduler, script>>

\* Lines 447-449.
clear_all_call(t) ==
    /\ th[t].pc = "idle"
    /\ db' = clear_all(db)
    /\ th' = [th EXCEPT ![t] = Returned("clear_all", "None")]
    /\ UNCHANGED <<nextId, submitCalls, root, detection, matching, store, scheduler, script>>

\* A caller deletes one record through the database.
delete_job_call(t) ==
    /\ th[t].pc = "idle"
    /\ \E internal_id \in Ids :
         /\ db' = delete_job(db, internal_id)
         /\ th' = [th EXCEPT ![t] = Returned("delete_job", "None")]
    /\ UNCHANGED <<nextId, submitCalls, root, detection, matching, store, scheduler, script>>

(***************************************************************************)
(* tracking/log_parser.py: a log file is absent, unreadable, or a sequence *)
(* of lines; of a line the parser uses whether it is empty after strip(),  *)
(* whether an error pattern matches it and whether is_whitelisted accepts  *)
(* it.                                                                     *)
(***************************************************************************)
\* Lines of a log file the model writes.
MaxLogLines == 2
\* Expected output patterns of a job the model lists.
MaxExpected == 2

\* parse(log_path, max_lines=10000)
DefaultMaxLines == 10000
\* "if len(error_lines) >= 50: break"
ErrorLinesCap == 50
\* "error_lines = result.error_lines[:20]"
EvidenceCap == 20
\* "', '.join(missing[:5])"
MissingNamesCap == 5

\* "if len(line) > 500: line = line[:500] + "...""
TruncateAt == 500
EllipsisLen == 3

\* A line after strip(): what the patterns and the whitelist say about it,
\* and its number of characters.
LineKinds == {"blank", "plain", "error", "whitelisted_error"}
Line(kind, len) == [kind |-> kind, len |-> len]
matches_error_pattern(line) == line.kind \in {"error", "whitelisted_error"}
line_is_whitelisted(line) == line.kind = "whitelisted_error"

\* Length of the lines of the short logs.
ShortLen == 5
ShortLines ==
    {Line("blank", 0)} \cup {Line(k, ShortLen) : k \in LineKinds \ {"blank"}}

\* Lines 113-114: the line as it is kept.
truncated(line) ==
    IF line.len > TruncateAt
    THEN [line EXCEPT !.len = TruncateAt + EllipsisLen]
    ELSE line

\* Lines 131-132: the line written when reading fails.
FailedToParse == Line("failed_to_parse", ShortLen)

SeqsUpTo(S, n) == UNION {[1..k -> S] : k \in 0..n}

Logs == {[exists |-> FALSE, readable |-> FALSE, lines |-> <<>>],
         [exists |-> TRUE, readable |-> FALSE, lines |-> <<>>]}
        \cup {[exists |-> TRUE, readable |-> TRUE, lines |-> l] :
                l \in SeqsUpTo(ShortLines, MaxLogLines)}

log_result(has_errors, error_lines, total_errors, whitelisted_errors) ==
    [has_errors |-> has_errors, error_lines |-> error_lines,
     total_errors |-> total_errors, whitelisted_errors |-> whitelisted_errors]

\* lines[-max_lines:]
LastLines(lines, max_lines) ==
    IF Len(lines) > max_lines
    THEN IF max_lines = 0 THEN lines
         ELSE SubSeq(lines, Len(lines) - max_lines + 1, Len(lines))
    ELSE lines

\* Lines 87-119: the loop over the lines.  A line is kept when it is not
\* blank, matches an error pattern and is not whitelisted.  error_lines grows
\* by one line at a time, so "if len(error_lines) >= 50: break" leaves the
\* loop at the line that is kept as the 50th, and the lines after it are
\* never looked at.
is_kept(line) ==
    line.kind # "blank" /\ matches_error_pattern(line) /\ ~line_is_whitelisted(line)
KeptUpTo(lines, n) == {k \in 1..n : is_kept(lines[k])}
LoopEnd(lines) ==
    IF Cardinality(KeptUpTo(lines, Len(lines))) >= ErrorLinesCap
    THEN CHOOSE b \in 1..Len(lines) :
            is_kept(lines[b]) /\ Cardinality(KeptUpTo(lines, b)) = ErrorLinesCap
    ELSE Len(lines)

\* Lines 87-126: the result of the loop.
scan(lines) ==
    LET looked_at == SubSeq(lines, 1, LoopEnd(lines))
        kept == SelectSeq(looked_at, is_kept)
        error_lines == [k \in 1..Len(kept) |-> truncated(kept[k])]
        total_errors ==
            Cardinality({k \in 1..Len(looked_at) :
                           /\ looked_at[k].kind # "blank"
                           /\ matches_error_pattern(looked_at[k])})
        whitelisted_errors ==
            Cardinality({k \in 1..Len(looked_at) :
                           /\ looked_at[k].kind # "blank"
                           /\ matches_error_pattern(looked_at[k])
                           /\ line_is_whitelisted(looked_at[k])})
    IN  log_result(Len(error_lines) > 0, error_lines, total_errors,
                   whitelisted_errors)

\* Lines 60-135: parse.  An exception while reading gives has_errors=False
\* and one line "Failed to parse log: ..." in error_lines.
parse(log, max_lines) ==
    IF ~log.exists THEN log_result(FALSE, <<>>, 0, 0)
    ELSE IF ~log.readable
         THEN log_result(FALSE, <<FailedToParse>>, 0, 0)
         ELSE scan(LastLines(log.lines, max_lines))

\* Lines 171-196: parse_multiple.
RECURSIVE parse_multiple_from(_, _, _)
parse_multiple_from(logs, k, acc) ==
    IF k > Len(logs)
    THEN log_result(Len(acc.error_lines) > 0, acc.error_lines,
                    acc.total_errors, acc.whitelisted_errors)
    ELSE LET result == parse(logs[k], DefaultMaxLines)
         IN  parse_multiple_from(logs, k + 1,
                log_result(FALSE, acc.error_lines \o result.error_lines,
                           acc.total_errors + result.total_errors,
                           acc.whitelisted_errors + result.whitelisted_errors))
parse_multiple(logs) ==
    parse_multiple_from(logs, 1, log_result(FALSE, <<>>, 0, 0))

(***************************************************************************)
(* tracking/failure_detector.py                                            *)
(***************************************************************************)
\* The job states detect can be given.
job_status == {"running", "completed", "failed", "cancelled", "timeout"}
\* exit_code: -1 stands for None.
NoExitCode == -1
ExitCodes == {NoExitCode, 0, 1}

TakeAll(s, n) == s
Take(s, n) == IF Len(s) > n THEN SubSeq(s, 1, n) ELSE s

\* Lines 77-100: the indices of the expected patterns with no match.
RECURSIVE check_expected_files_from(_, _)
check_expected_files_from(expected_files, k) ==
    IF k > Len(expected_files) THEN <<>>
    ELSE (IF expected_files[k] THEN <<>> ELSE <<k>>)
         \o check_expected_files_from(expected_files, k + 1)
check_expected_files(expected_files) ==
    check_expected_files_from(expected_files, 1)

Verdict(failed, kind, reason, count, names, error_lines) ==
    [failed |-> failed, kind |-> kind,
     reason |-> [text |-> reason, count |-> count, names |-> names],
     error_lines |-> error_lines]

\* Lines 25-75: detect.
detect(j) ==
    IF j.status = "failed"
    THEN Verdict(TRUE, "scheduler", "scheduler reported failure", 0, <<>>, <<>>)
    ELSE IF j.status = "cancelled"
    THEN Verdict(TRUE, "scheduler", "job was cancelled", 0, <<>>, <<>>)
    ELSE IF j.status = "timeout"
    THEN Verdict(TRUE, "timeout", "job exceeded walltime", 0, <<>>, <<>>)
    ELSE IF j.exit_code # NoExitCode /\ j.exit_code # 0
    THEN Verdict(TRUE, "exit_code", "exit code", j.exit_code, <<>>, <<>>)
    ELSE
    LET log_files == (IF j.stderr.exists THEN <<j.stderr>> ELSE <<>>)
                     \o (IF j.stdout.exists THEN <<j.stdout>> ELSE <<>>)
        result == parse_multiple(log_files)
        missing == check_expected_files(j.expected_files)
    IN  IF Len(log_files) > 0 /\ result.has_errors
        THEN Verdict(TRUE, "log_error", "found error(s) in logs",
                     Len(result.error_lines), <<>>,
                     Take(result.error_lines, EvidenceCap))
        ELSE IF Len(missing) > 0
        THEN Verdict(TRUE, "missing_file", "missing output files",
                     IF Len(missing) > MissingNamesCap
                     THEN Len(missing) - MissingNamesCap ELSE 0,
                     Take(missing, MissingNamesCap), <<>>)
        ELSE Verdict(FALSE, "None", "None", 0, <<>>, <<>>)

\* The jobs detect is called on.
DetectJobs ==
    [status : job_status, exit_code : ExitCodes, stderr : Logs, stdout : Logs,
     expected_files : SeqsUpTo(BOOLEAN, MaxExpected)]

InitDetect ==
    /\ db = [i \in Ids |-> None]
    /\ nextId = 1
    /\ th = [t \in Threads |-> Idle]
    /\ submitCalls = [i \in Ids |-> 0]
    /\ root = [i \in Ids |-> i]
    /\ matching = NoCall
    /\ store = NoStore
    /\ scheduler = NoCall
    /\ script = NoScripts
    /\ \E j \in DetectJobs : detection = [pc |-> "call", j |-> j]

\* One call of detect.
detect_call ==
    /\ detection.pc = "call"
    /\ detection' = [pc |-> "done", j |-> detection.j,
                     verdict |-> detect(detection.j)]
    /\ UNCHANGED <<db, nextId, th, submitCalls, root, matching, store, scheduler, script>>

(***************************************************************************)
(* log_checker.py: check_log and check_job_logs.  The result keeps success *)
(* and error_lines; has_severe and log_path are read by no caller.         *)
(***************************************************************************)
LogCheckResult(success, error_lines) ==
    [success |-> success, error_lines |-> error_lines]

LogFileNotFound == Line("log_file_not_found", ShortLen)
ErrorReadingLogFile == Line("error_reading_log_file", ShortLen)
NoLogFilesFound == Line("no_log_files_found", ShortLen)

\* Lines 94-101: the lines of the file that are kept.
is_error_line(line) ==
    matches_error_pattern(line) /\ ~line_is_whitelisted(line)

\* Lines 54-114: check_log.
check_log(log) ==
    IF ~log.exists THEN LogCheckResult(FALSE, <<LogFileNotFound>>)
    ELSE IF ~log.readable THEN LogCheckResult(FALSE, <<ErrorReadingLogFile>>)
    ELSE LET error_lines == SelectSeq(log.lines, is_error_line)
         IN  LogCheckResult(Len(error_lines) = 0, error_lines)

\* Lines 135-142: the error lines of the files that exist, from file k on.
RECURSIVE check_job_logs_from(_, _)
check_job_logs_from(logs, k) ==
    IF k > Len(logs) THEN <<>>
    ELSE (IF logs[k].exists THEN check_log(logs[k]).error_lines ELSE <<>>)
         \o check_job_logs_from(logs, k + 1)

\* Lines 117-156: check_job_logs on the .out, .err and .log files of a job.
check_job_logs(logs) ==
    LET checked_any == \E k \in 1..Len(logs) : logs[k].exists
        all_errors == check_job_logs_from(logs, 1)
    IN  IF ~checked_any THEN LogCheckResult(FALSE, <<NoLogFilesFound>>)
        ELSE LogCheckResult(Len(all_errors) = 0, all_errors)

(***************************************************************************)
(* Calls of the parser, the detector and the log checker on logs long      *)
(* enough to reach the caps: a few lines of any kind and length, followed  *)
(* by a run of error lines.                                                *)
(***************************************************************************)
\* Lines of any kind before the run of error lines.
MaxPrefixLines == 1

Repeat(x, n) == [k \in 1..n |-> x]
LineLens == {ShortLen, TruncateAt, TruncateAt + 1}
LongLines ==
    {Line("blank", 0)}
    \cup {Line(k, n) : k \in LineKinds \ {"blank"}, n \in LineLens}
RunLengths == {0, ErrorLinesCap, ErrorLinesCap + 1}
AbsentLog == [exists |-> FALSE, readable |-> FALSE, lines |-> <<>>]
UnreadableLog == [exists |-> TRUE, readable |-> FALSE, lines |-> <<>>]
ReadableLog(lines) == [exists |-> TRUE, readable |-> TRUE, lines |-> lines]
LongLogs ==
    {AbsentLog, UnreadableLog}
    \cup {ReadableLog(p \o Repeat(Line("error", ShortLen), n)) :
            p \in SeqsUpTo(LongLines, MaxPrefixLines), n \in RunLengths}
SecondLogs ==
    {AbsentLog, ReadableLog(Repeat(Line("error", ShortLen), ErrorLinesCap))}
ThirdLogs == {AbsentLog, ReadableLog(<<Line("whitelisted_error", ShortLen)>>)}
MaxLinesArgs == {0, 1, DefaultMaxLines}
ManyExpected ==
    {<<TRUE>>}
    \cup {Repeat(FALSE, n) : n \in {0, MissingNamesCap, MissingNamesCap + 1}}

EvidenceJobs ==
    [status : job_status, exit_code : ExitCodes, stderr : LongLogs,
     stdout : SecondLogs, expected_files : ManyExpected]

InitEvidence ==
    /\ db = [i \in Ids |-> None]
    /\ nextId = 1
    /\ th = [t \in Threads |-> Idle]
    /\ submitCalls = [i \in Ids |-> 0]
    /\ root = [i \in Ids |-> i]
    /\ matching = NoCall
    /\ store = NoStore
    /\ scheduler = NoCall
    /\ script = NoScripts
    /\ \E j \in EvidenceJobs : detection = [pc |-> "call", j |-> j]

\* One call of parse on the job's stderr file.
parse_call ==
    /\ detection.pc = "call"
    /\ \E max_lines \in MaxLinesArgs :
          detection' = [pc |-> "parsed", j |-> detection.j,
                        max_lines |-> max_lines,
                        result |-> parse(detection.j.stderr, max_lines)]
    /\ UNCHANGED <<db, nextId, th, submitCalls, root, matching, store, scheduler, script>>

\* One call of parse_multiple on the job's stderr and stdout files.
parse_multiple_call ==
    /\ detection.pc = "call"
    /\ detection' = [pc |-> "parsed_multiple", j |-> detection.j,
                     result |-> parse_multiple(<<detection.j.stderr,
                                                 detection.j.stdout>>)]
    /\ UNCHANGED <<db, nextId, th, submitCalls, root, matching, store, scheduler, script>>

\* One call of check_job_logs on the job's .out, .err and .log files.
check_job_logs_call ==
    /\ detection.pc = "call"
    /\ \E log \in ThirdLogs :
          detection' = [pc |-> "checked", j |-> detection.j, log |-> log,
                        result |-> check_job_logs(<<detection.j.stdout,
                                                    detection.j.stderr, log>>)]
    /\ UNCHANGED <<db, nextId, th, submitCalls, root, matching, store, scheduler, script>>

(***************************************************************************)
(* Whitelist matching: log_checker.is_whitelisted and                      *)
(* log_parser.is_whitelisted.  A line and a whitelist phrase are strings;  *)
(* the model writes a string as the sequence of its whitespace-separated   *)
(* words, which is what split() returns.                                   *)
(***************************************************************************)
\* Phrases of a whitelist the model writes.
MaxPhrases == 1

\* "match_threshold: int = 3", "whitelist_threshold: int = 3"
DefaultThreshold == 3
\* Words of a line or of a phrase: enough to share DefaultThreshold words.
MaxWords == DefaultThreshold
Thresholds == {DefaultThreshold - 1, DefaultThreshold}

\* "A" and "a" differ in letter case only.
Words == {"a", "A", "b", "c"}
Texts == SeqsUpTo(Words, MaxWords)
Whitelists == SeqsUpTo(Texts, MaxPhrases)

\* str.lower(), word by word.
lower_word(w) == IF w = "A" THEN "a" ELSE w
lower(text) == [k \in 1..Len(text) |-> lower_word(text[k])]
\* set(text.split())
word_set(text) == {text[k] : k \in 1..Len(text)}

\* log_checker.py lines 24-51, with ">" in place of ">=".
is_whitelisted_above_threshold(line, whitelist, match_threshold) ==
    IF Len(whitelist) = 0 THEN FALSE
    ELSE LET line_words == word_set(lower(line))
         IN  \E k \in 1..Len(whitelist) :
                LET pattern_words == word_set(lower(whitelist[k]))
                    matches == Cardinality(pattern_words \cap line_words)
                IN  matches > match_threshold

\* log_checker.py lines 24-51 with lists in place of sets: a word that is
\* repeated in the phrase is counted each time.
is_whitelisted_counting_repeats(line, whitelist, match_threshold) ==
    IF Len(whitelist) = 0 THEN FALSE
    ELSE LET line_words == word_set(lower(line))
         IN  \E k \in 1..Len(whitelist) :
                LET pattern == lower(whitelist[k])
                    matches == Cardinality({n \in 1..Len(pattern) :
                                              pattern[n] \in line_words})
                IN  matches >= match_threshold

\* log_checker.py lines 24-51: is_whitelisted.
is_whitelisted(line, whitelist, match_threshold) ==
    IF Len(whitelist) = 0 THEN FALSE
    ELSE LET line_words == word_set(lower(line))
         IN  \E k \in 1..Len(whitelist) :
                LET pattern_words == word_set(lower(whitelist[k]))
                    matches == Cardinality(pattern_words \cap line_words)
                IN  matches >= match_threshold

\* log_parser.py lines 137-169 without the two calls of lower().
log_parser_is_whitelisted_as_written(error_whitelist, whitelist_threshold, case_sensitive, line) ==
    IF Len(error_whitelist) = 0 THEN FALSE
    ELSE \E k \in 1..Len(error_whitelist) :
            LET white_words == word_set(error_whitelist[k])
                error_words == word_set(line)
                matches == Cardinality(white_words \cap error_words)
            IN  matches >= whitelist_threshold

\* log_parser.py lines 137-169: log_parser.is_whitelisted, of a parser built
\* with error_whitelist, whitelist_threshold and case_sensitive.
log_parser_is_whitelisted(error_whitelist, whitelist_threshold, case_sensitive, line) ==
    IF Len(error_whitelist) = 0 THEN FALSE
    ELSE LET line_lower == IF ~case_sensitive THEN lower(line) ELSE line
         IN  \E k \in 1..Len(error_whitelist) :
                LET white_lower == IF ~case_sensitive
                                   THEN lower(error_whitelist[k])
                                   ELSE error_whitelist[k]
                    white_words == word_set(white_lower)
                    error_words == word_set(line_lower)
                    matches == Cardinality(white_words \cap error_words)
                IN  matches >= whitelist_threshold

InitMatch ==
    /\ db = [i \in Ids |-> None]
    /\ nextId = 1
    /\ th = [t \in Threads |-> Idle]
    /\ submitCalls = [i \in Ids |-> 0]
    /\ root = [i \in Ids |-> i]
    /\ detection = NoCall
    /\ store = NoStore
    /\ scheduler = NoCall
    /\ script = NoScripts
    /\ \E line \in Texts, whitelist \in Whitelists, threshold \in Thresholds :
          matching = [pc |-> "call", line |-> line, whitelist |-> whitelist,
                      threshold |-> threshold]

\* Lines and whitelists for rewording: the words of a text that differ in
\* order, number and letter case, and the threshold two of them can reach.
RewordWords == {"a", "A", "b"}
RewordTexts == SeqsUpTo(RewordWords, MaxWords)
RewordWhitelists == SeqsUpTo(RewordTexts, MaxPhrases)

InitReword ==
    /\ db = [i \in Ids |-> None]
    /\ nextId = 1
    /\ th = [t \in Threads |-> Idle]
    /\ submitCalls = [i \in Ids |-> 0]
    /\ root = [i \in Ids |-> i]
    /\ detection = NoCall
    /\ store = NoStore
    /\ scheduler = NoCall
    /\ script = NoScripts
    /\ \E line \in RewordTexts, whitelist \in RewordWhitelists :
          matching = [pc |-> "call", line |-> line, whitelist |-> whitelist,
                      threshold |-> DefaultThreshold - 1]

\* The same line, whitelist and threshold given to both matchers, the
\* parser's in either setting of case_sensitive.
is_whitelisted_call ==
    /\ matching.pc = "call"
    /\ matching' =
          [pc |-> "done", line |-> matching.line,
           whitelist |-> matching.whitelist, threshold |-> matching.threshold,
           log_checker |-> is_whitelisted(matching.line, matching.whitelist,
                                          matching.threshold),
           log_parser |->
              [case_sensitive \in BOOLEAN |->
                  log_parser_is_whitelisted(matching.whitelist,
                                            matching.threshold,
                                            case_sensitive, matching.line)]]
    /\ UNCHANGED <<db, nextId, th, submitCalls, root, detection, store, scheduler, script>>

(***************************************************************************)
(* scheduler/slurm.py, SLURMScheduler.get_status.  squeue and sacct are     *)
(* outside the program: a tool is missing (FileNotFoundError), or it runs  *)
(* and gives a return code and an output.  A state is written as SLURM     *)
(* prints it; "" is an empty output or an empty line.                      *)
(***************************************************************************)
\* Lines of the sacct output.
MaxSacctLines == 2

SqueueStates ==
    {"", "PENDING", "RUNNING", "COMPLETING", "COMPLETED", "FAILED",
     "CANCELLED", "TIMEOUT", "NODE_FAIL", "PREEMPTED", "SUSPENDED"}
SacctStates == {"", "COMPLETED", "FAILED", "CANCELLED", "TIMEOUT", "NODE_FAIL"}
ToolMissing == [found |-> FALSE, returncode |-> 0, stdout |-> <<>>]
ToolRan(returncode, stdout) ==
    [found |-> TRUE, returncode |-> returncode, stdout |-> stdout]
SqueueRuns ==
    {ToolMissing}
    \cup {ToolRan(rc, <<state>>) : rc \in {0, 1}, state \in SqueueStates}
SacctRuns ==
    {ToolMissing}
    \cup {ToolRan(rc, out) : rc \in {0, 1},
                             out \in SeqsUpTo(SacctStates, MaxSacctLines)}

\* Lines 168-179: state_map.get(state, 'unknown').
state_map(state) ==
    CASE state = "PENDING" -> "pending"
      [] state = "RUNNING" -> "running"
      [] state = "COMPLETING" -> "running"
      [] state = "COMPLETED" -> "completed"
      [] state = "FAILED" -> "failed"
      [] state = "CANCELLED" -> "failed"
      [] state = "TIMEOUT" -> "failed"
      [] state = "NODE_FAIL" -> "failed"
      [] state = "PREEMPTED" -> "failed"
      [] OTHER -> "unknown"

\* Lines 193-201: the loop over the lines of the sacct output, from line k
\* on; a line that holds neither COMPLETED nor FAILED nor CANCELLED is
\* passed over.
RECURSIVE check_states(_, _)
check_states(states, k) ==
    IF k > Len(states) THEN "completed"
    ELSE IF states[k] = "COMPLETED" THEN "completed"
    ELSE IF states[k] \in {"FAILED", "CANCELLED"} THEN "failed"
    ELSE check_states(states, k + 1)

\* Lines 184-206: _check_completed_job.
check_completed_job(sacct) ==
    IF ~sacct.found THEN "completed"
    ELSE IF sacct.returncode = 0 /\ \E k \in 1..Len(sacct.stdout) : sacct.stdout[k] # ""
    THEN check_states(sacct.stdout, 1)
    ELSE "completed"

\* Lines 156-182: get_status.
get_status(squeue, sacct) ==
    IF ~squeue.found THEN "unknown"
    ELSE IF squeue.returncode # 0 \/ squeue.stdout[1] = ""
    THEN check_completed_job(sacct)
    ELSE state_map(squeue.stdout[1])

InitSlurm ==
    /\ db = [i \in Ids |-> None]
    /\ nextId = 1
    /\ th = [t \in Threads |-> Idle]
    /\ submitCalls = [i \in Ids |-> 0]
    /\ root = [i \in Ids |-> i]
    /\ detection = NoCall
    /\ matching = NoCall
    /\ store = NoStore
    /\ script = NoScripts
    /\ \E squeue \in SqueueRuns, sacct \in SacctRuns :
          scheduler = [pc |-> "call", squeue |-> squeue, sacct |-> sacct]

\* One call of get_status.
get_status_call ==
    /\ scheduler.pc = "call"
    /\ scheduler' = [pc |-> "done", squeue |-> scheduler.squeue,
                     sacct |-> scheduler.sacct,
                     ret |-> get_status(scheduler.squeue, scheduler.sacct)]
    /\ UNCHANGED <<db, nextId, th, submitCalls, root, detection, matching, store, script>>

(***************************************************************************)
(* database.py, class database: the SQLite store of the tracking layer.    *)
(* The jobs table is the sequence of its rows in insertion order; the      *)
(* dependencies table is the set of its (job_id, depends_on, dep_type)     *)
(* rows, which is its primary key.  Of a job the model keeps the id, the   *)
(* status, created_at and the three dependency lists.  The database file   *)
(* is persistent: __init__ opens the file at db_path and _init_db creates  *)
(* the tables only if they do not exist, so the tables may hold rows when  *)
(* the object is constructed.                                              *)
(***************************************************************************)
\* Job ids of the store.
MaxStoreIds == 2

\* Lines 31-71: the columns of the jobs table.
JobsColumns == 23
\* Lines 101-103: the placeholders of "INSERT INTO jobs VALUES (...)".
InsertPlaceholders == 22

StoreIds == 1..MaxStoreIds
DepTypes == {"after_ok", "after_fail", "after_any"}
StoreStatuses == {"pending", "completed"}

StoreJob(id, status, created_at, after_ok, after_fail, after_any) ==
    [id |-> id, status |-> status, created_at |-> created_at,
     after_ok |-> after_ok, after_fail |-> after_fail, after_any |-> after_any]
\* get_job's None.
NoStoreJob == StoreJob(0, "None", 0, <<>>, <<>>, <<>>)
Row(id, status, created_at) ==
    [id |-> id, status |-> status, created_at |-> created_at]
Edge(job_id, depends_on, dep_type) ==
    [job_id |-> job_id, depends_on |-> depends_on, dep_type |-> dep_type]

RowIds(jobs) == {jobs[k].id : k \in 1..Len(jobs)}
Elements(list) == {list[k] : k \in 1..Len(list)}

\* The rows a query returns, in the order of the key.
RECURSIVE Ascending(_)
Ascending(S) ==
    IF S = {} THEN <<>>
    ELSE LET least == CHOOSE x \in S : \A y \in S : x <= y
         IN  <<least>> \o Ascending(S \ {least})

\* Lines 94-150: add_job.  The INSERT names 22 placeholders for a table of
\* 23 columns (and 23 values), so sqlite3 raises OperationalError when it
\* prepares the statement; nothing is committed.  A second row with a
\* stored id violates the primary key.
add_job(s, j) ==
    IF InsertPlaceholders # JobsColumns
    THEN [ret |-> "OperationalError", jobs |-> s.jobs, deps |-> s.deps]
    ELSE IF j.id \in RowIds(s.jobs)
    THEN [ret |-> "IntegrityError", jobs |-> s.jobs, deps |-> s.deps]
    ELSE [ret |-> "None",
          jobs |-> Append(s.jobs, Row(j.id, j.status, j.created_at)),
          deps |-> s.deps
                   \cup {Edge(j.id, d, "after_ok") : d \in Elements(j.after_ok)}
                   \cup {Edge(j.id, d, "after_fail") : d \in Elements(j.after_fail)}
                   \cup {Edge(j.id, d, "after_any") : d \in Elements(j.after_any)}]

\* Lines 177-213: _row_to_job.
row_to_job(row, deps) ==
    StoreJob(row.id, row.status, row.created_at,
             Ascending({d.depends_on : d \in {e \in deps : e.dep_type = "after_ok"}}),
             Ascending({d.depends_on : d \in {e \in deps : e.dep_type = "after_fail"}}),
             Ascending({d.depends_on : d \in {e \in deps : e.dep_type = "after_any"}}))

\* Lines 152-175: get_job.
get_job(s, job_id) ==
    IF job_id \notin RowIds(s.jobs) THEN NoStoreJob
    ELSE LET row == CHOOSE r \in Elements(s.jobs) : r.id = job_id
             deps == {e \in s.deps : e.job_id = job_id}
         IN  row_to_job(row, deps)

\* Lines 226-229 and 239: the keys update_job writes; any other key of
\* kwargs is skipped.
UpdatableFields ==
    {"status", "scheduler_id", "exit_code", "script_path", "stdout_path",
     "stderr_path", "submitted_at", "started_at", "completed_at",
     "failure_type", "failure_reason", "retry_count", "error_lines"}

\* The keyword arguments of update_job: the keys given, and their values.
Kwargs ==
    [keys : SUBSET {"status", "created_at"}, status : StoreStatuses,
     created_at : {0}]

update_job_any_field(s, job_id, kwargs) ==
    [ret |-> "None",
     jobs |-> [k \in 1..Len(s.jobs) |->
                 IF s.jobs[k].id = job_id
                 THEN [f \in DOMAIN s.jobs[k] |->
                         IF f \in kwargs.keys THEN kwargs[f] ELSE s.jobs[k][f]]
                 ELSE s.jobs[k]],
     deps |-> s.deps]

\* Lines 215-247: update_job.  One UPDATE statement for the row with the
\* id, none when no key is written.
update_job(s, job_id, kwargs) ==
    LET updates == kwargs.keys \cap UpdatableFields
    IN  [ret |-> "None",
         jobs |-> IF updates = {} THEN s.jobs
                  ELSE [k \in 1..Len(s.jobs) |->
                          IF s.jobs[k].id = job_id
                          THEN [f \in DOMAIN s.jobs[k] |->
                                  IF f \in updates THEN kwargs[f]
                                  ELSE s.jobs[k][f]]
                          ELSE s.jobs[k]],
         deps |-> s.deps]

\* Lines 249-300: list_jobs.  status "None" and limit 0 stand for None; a
\* limit of 0 is not applied either ("if limit:").
newer(a, b) == a.created_at > b.created_at
list_jobs(s, status, limit) ==
    LET selected == IF status # "None"
                    THEN SelectSeq(s.jobs, LAMBDA r : r.status = status)
                    ELSE s.jobs
        ordered == SortSeq(selected, newer)
        rows == IF limit # 0 /\ Len(ordered) > limit
                THEN SubSeq(ordered, 1, limit) ELSE ordered
    IN  [k \in 1..Len(rows) |->
           row_to_job(rows[k], {e \in s.deps : e.job_id = rows[k].id})]

\* Lines 302-312: delete_job.
database_delete_job(s, job_id) ==
    [ret |-> "None",
     jobs |-> SelectSeq(s.jobs, LAMBDA r : r.id # job_id),
     deps |-> {e \in s.deps : e.job_id # job_id}]

\* Lines 314-327: get_dependents.
get_dependents(s, job_id) ==
    Ascending({e.job_id : e \in {d \in s.deps : d.depends_on = job_id}})

\* The tables of a database file: every row has its own id, and every row
\* of the dependencies table joins two rows of the jobs table.
Distinct(ids) == \A a, b \in 1..Len(ids) : a # b => ids[a] # ids[b]
IntactEdges(ids) ==
    {e \in {Edge(a, b, t) : a \in Elements(ids), b \in Elements(ids),
                             t \in DepTypes} : e.job_id # e.depends_on}
NoStoreCall == [op |-> "none", arg |-> 0, ret |-> "none"]
Opened(jobs, deps, call) ==
    [pc |-> "open", jobs |-> jobs, deps |-> deps, call |-> call]

InitStore ==
    /\ db = [i \in Ids |-> None]
    /\ nextId = 1
    /\ th = [t \in Threads |-> Idle]
    /\ submitCalls = [i \in Ids |-> 0]
    /\ root = [i \in Ids |-> i]
    /\ detection = NoCall
    /\ matching = NoCall
    /\ scheduler = NoCall
    /\ script = NoScripts
    /\ \E ids \in {l \in SeqsUpTo(StoreIds, MaxStoreIds) : Distinct(l)} :
         \E statuses \in [1..Len(ids) -> StoreStatuses] :
           \E deps \in {{}} \cup {{e} : e \in IntactEdges(ids)} :
              store = Opened([k \in 1..Len(ids) |->
                                Row(ids[k], statuses[k], k)],
                             deps, NoStoreCall)

\* The jobs given to add_job: new, pending, created after the stored ones,
\* with at most one predecessor.
DepLists ==
    {<<<<>>, <<>>, <<>>>>}
    \cup {<<<<d>>, <<>>, <<>>>> : d \in StoreIds}
    \cup {<<<<>>, <<d>>, <<>>>> : d \in StoreIds}
    \cup {<<<<>>, <<>>, <<d>>>> : d \in StoreIds}
NewJobs ==
    {StoreJob(id, "pending", MaxStoreIds + 1, l[1], l[2], l[3]) :
        id \in StoreIds, l \in DepLists}

add_job_call ==
    /\ store.pc = "open"
    /\ \E j \in NewJobs :
         LET r == add_job(store, j)
         IN  store' = Opened(r.jobs, r.deps,
                             [op |-> "add_job", arg |-> j, ret |-> r.ret])
    /\ UNCHANGED <<db, nextId, th, submitCalls, root, detection, matching, scheduler, script>>

get_job_call ==
    /\ store.pc = "open"
    /\ \E job_id \in StoreIds :
         store' = Opened(store.jobs, store.deps,
                         [op |-> "get_job", arg |-> job_id,
                          ret |-> get_job(store, job_id)])
    /\ UNCHANGED <<db, nextId, th, submitCalls, root, detection, matching, scheduler, script>>

list_jobs_call ==
    /\ store.pc = "open"
    /\ \E status \in StoreStatuses \cup {"None"}, limit \in {0, 1} :
         store' = Opened(store.jobs, store.deps,
                         [op |-> "list_jobs",
                          arg |-> [status |-> status, limit |-> limit],
                          ret |-> list_jobs(store, status, limit)])
    /\ UNCHANGED <<db, nextId, th, submitCalls, root, detection, matching, scheduler, script>>

database_delete_job_call ==
    /\ store.pc = "open"
    /\ \E job_id \in StoreIds :
         LET r == database_delete_job(store, job_id)
         IN  store' = Opened(r.jobs, r.deps,
                             [op |-> "delete_job", arg |-> job_id,
                              ret |-> r.ret])
    /\ UNCHANGED <<db, nextId, th, submitCalls, root, detection, matching, scheduler, script>>

update_job_call ==
    /\ store.pc = "open"
    /\ \E job_id \in StoreIds, kwargs \in Kwargs :
         LET r == update_job(store, job_id, kwargs)
         IN  store' = Opened(r.jobs, r.deps,
                             [op |-> "update_job",
                              arg |-> [job_id |-> job_id, kwargs |-> kwargs],
                              ret |-> r.ret])
    /\ UNCHANGED <<db, nextId, th, submitCalls, root, detection, matching, scheduler, script>>

get_dependents_call ==
    /\ store.pc = "open"
    /\ \E job_id \in StoreIds :
         store' = Opened(store.jobs, store.deps,
                         [op |-> "get_dependents", arg |-> job_id,
                          ret |-> get_dependents(store, job_id)])
    /\ UNCHANGED <<db, nextId, th, submitCalls, root, detection, matching, scheduler, script>>

(***************************************************************************)
(* Specifications                                                          *)
(***************************************************************************)
\* submit, retry, status and cancel.
Call(t, deps, cap) ==
    \/ submit_begin(t, deps, cap)
    \/ submit_sched(t)
    \/ submit_save(t)
    \/ retry_begin(t)
    \/ retry_get(t, cap)
    \/ retry_save(t)
    \/ status_begin(t)
    \/ status_sched(t)
    \/ status_save(t)
    \/ cancel_begin(t)
    \/ cancel_sched(t)
    \/ cancel_get(t)
    \/ cancel_save(t)

\* The same and wait_and_check.
Step(t, deps, cap) ==
    \/ Call(t, deps, cap)
    \/ wait_and_check_begin(t)
    \/ wait_loop(t)
    \/ wait_and_check_check(t)

\* One caller: every call runs to its end before the next one starts.
Next == \E t \in MainThread : Step(t, NoDeps, MaxJobs)
Spec == Init /\ [][Next]_vars

\* One caller, one record more: long enough for a retry chain.
NextChain == \E t \in MainThread : Step(t, NoDeps, MaxJobs + 1)
SpecChain == Init /\ [][NextChain]_vars

\* One caller who passes dependencies to submit.
NextDeps == \E t \in MainThread : Step(t, OneDep, MaxJobs)
SpecDeps == Init /\ [][NextDeps]_vars

\* Two callers whose calls interleave at every backend and database call.
NextConc == \E t \in Threads : Call(t, NoDeps, MaxJobs)
SpecConc == Init /\ [][NextConc]_vars

\* One caller that submits jobs and waits for them or cancels them all.
Batch(t) ==
    \/ submit_defaults_begin(t, MaxJobs) \/ submit_sched(t) \/ submit_save(t)
    \/ wait_begin(t, MaxWaitIds, Timeouts)
    \/ wait_head(t) \/ wait_sweep(t) \/ wait_rest(t)
    \/ status_sched(t) \/ status_save(t)
    \/ cancel_all_begin(t) \/ cancel_all_loop(t)
    \/ cancel_get(t) \/ cancel_save(t)
NextWait == \E t \in MainThread : Batch(t)
SpecWait == Init /\ [][NextWait]_vars
\* The caller's thread keeps running.
SpecWaitFair == SpecWait /\ WF_vars(NextWait)

\* One caller with every operation of the engine (wait for one job id, with
\* no timeout), and the cleanup calls.
Cleanup(t) ==
    \/ clear_completed_begin(t) \/ clear_completed_loop(t)
    \/ clear_all_call(t) \/ delete_job_call(t)
NextClean ==
    \E t \in MainThread :
        \/ Step(t, NoDeps, MaxJobs)
        \/ wait_begin(t, 1, {NoTimeout})
        \/ wait_head(t) \/ wait_sweep(t) \/ wait_rest(t)
        \/ cancel_all_begin(t) \/ cancel_all_loop(t)
        \/ Cleanup(t)
SpecClean == Init /\ [][NextClean]_vars

\* Calls of failure_detector.detect on every job of DetectJobs.
NextDetect == detect_call
SpecDetect == InitDetect /\ [][NextDetect]_vars

\* The parser, the detector and the log checker on long logs.
NextEvidence ==
    \/ parse_call
    \/ parse_multiple_call
    \/ detect_call
    \/ check_job_logs_call
SpecEvidence == InitEvidence /\ [][NextEvidence]_vars

\* Calls of SLURMScheduler.get_status on every output of squeue and sacct.
NextSlurm == get_status_call
SpecSlurm == InitSlurm /\ [][NextSlurm]_vars

\* Calls of the store on a database file.
NextStore ==
    \/ add_job_call
    \/ get_job_call
    \/ list_jobs_call
    \/ database_delete_job_call
    \/ update_job_call
    \/ get_dependents_call
SpecStore == InitStore /\ [][NextStore]_vars

\* Calls of the two whitelist matchers on every line, whitelist and threshold.
NextMatch == is_whitelisted_call
SpecMatch == InitMatch /\ [][NextMatch]_vars

\* Calls of the two matchers on lines and whitelists that are rewordings of
\* each other.
NextReword == is_whitelisted_call
SpecReword == InitReword /\ [][NextReword]_vars

(***************************************************************************)
(* Claims about the engine                                                 *)
(***************************************************************************)
Terminal == {"completed", "failed", "cancelled"}

\* The backend's submit is being called by t in this step.
BackendSubmit(t) == th[t].pc = "submit_sched" /\ th'[t].pc = "submit_save"

\* C1: cancellation wins over polling: when cancel returns True for a
\* stored job the stored state is cancelled, and no later write (a status
\* poll that started before or ends after the cancel) replaces it.
C1_CancelWins ==
    [][\A i \in Ids :
         /\ \A t \in Threads :
              (th[t].pc = "cancel_save" /\ th'[t].pc = "idle"
                 /\ th[t].job.internal_id = i) => db'[i].state = "cancelled"
         /\ (db[i] # None /\ db[i].state = "cancelled")
               => db'[i].state = "cancelled"]_vars

\* C2: within one attempt (one record) the stored state never moves
\* backward along pending -> submitted -> running -> terminal, and a
\* terminal state is never left.
Rank(state) == CASE state = "pending" -> 0
                 [] state = "submitted" -> 1
                 [] state = "running" -> 2
                 [] state \in Terminal -> 3
                 [] OTHER -> 0
C2_Monotonic ==
    [][\A i \in Ids :
         db[i] # None =>
           /\ (db[i].state # "unknown" /\ db'[i].state # "unknown")
                 => Rank(db'[i].state) >= Rank(db[i].state)
           /\ db[i].state \in Terminal => db'[i].state = db[i].state]_vars

\* C3: no double submission: the backend's submit is called at most once
\* per record and only for a record that is still pending, and a stored
\* record enters state submitted at most once (when it is created).
C3_NoDoubleSubmission ==
    [][\A i \in Ids :
         /\ submitCalls'[i] <= 1
         /\ \A t \in Threads :
              (BackendSubmit(t) /\ th[t].job.internal_id = i)
                 => th[t].job.state = "pending"
         /\ (db'[i] # None /\ db'[i].state = "submitted")
               => (db[i] = None \/ db[i].state = "submitted")]_vars

\* C4: dependency gating: a job whose after_ok names a stored job X is
\* passed to the backend's submit only while X is completed.
C4_DependencyGating ==
    [][\A t \in Threads :
         BackendSubmit(t) =>
           \A x \in th[t].job.after_ok :
              LET X == get_job_by_scheduler_id(db, x)
              IN  X # None => X.state = "completed"]_vars

\* C5: readiness is fail-closed: a job is ready iff every after_ok
\* predecessor is stored and completed and every after_any predecessor is
\* stored and terminal; the engine submits a job only when it is ready.
C5_ready(d, job) ==
    /\ \A x \in job.after_ok :
         LET X == get_job_by_scheduler_id(d, x)
         IN  X # None /\ X.state = "completed"
    /\ \A x \in job.after_any :
         LET X == get_job_by_scheduler_id(d, x)
         IN  X # None /\ X.state \in Terminal
C5_ReadinessFailClosed ==
    [][\A t \in Threads : BackendSubmit(t) => C5_ready(db, th[t].job)]_vars

\* C8: the retry predicate: retry goes on to create and submit a new
\* record exactly when the old record exists and attempt < max_retries + 1;
\* otherwise it returns None with no backend call and no record changed.
\* A granted retry returns after one backend submit for the new record,
\* which is then stored.
C8_RetryPredicate ==
    [][\A t \in Threads :
         /\ (th[t].pc = "retry_get" /\ th'[t] # th[t]) =>
              LET old_job == get_job_by_scheduler_id(db, th[t].h)
                  granted == /\ old_job # None
                             /\ old_job.attempt < old_job.max_retries + 1
              IN  IF granted
                  THEN /\ th'[t].pc = "submit_sched"
                       /\ th'[t].old = old_job
                       /\ th'[t].job.internal_id \in Ids
                       /\ db[th'[t].job.internal_id] = None
                  ELSE /\ th'[t] = Returned("retry", "None")
                       /\ db' = db
                       /\ submitCalls' = submitCalls
                       /\ nextId' = nextId
         /\ (th[t].pc = "retry_save" /\ th'[t] # th[t]) =>
              /\ th'[t] = Returned("retry", "job")
              /\ submitCalls[th[t].job.internal_id] = 1
              /\ db'[th[t].job.internal_id] # None
              /\ \A i \in Ids \ {th[t].job.internal_id} : db'[i] = db[i]]_vars

\* Witness of C8: one retry was granted (a stored record of attempt 2,
\* submitted once) and the retry just asked for was refused.
C8_Witness ==
    /\ th["t1"] = Returned("retry", "None")
    /\ \E i \in Ids : db[i] # None /\ db[i].attempt = 2 /\ submitCalls[i] = 1

\* C9: the retry budget: the backend's submit is called at most
\* max_retries + 1 times for the whole retry chain of one job.
Chain(r) == {i \in Ids : root[i] = r /\ submitCalls[i] > 0}
C9_RetryBudget ==
    \A r \in Ids :
       (db[r] # None /\ root[r] = r)
          => Cardinality(Chain(r)) <= db[r].max_retries + 1

\* C10: a manual retry of a terminal job whose max_retries is 0 creates
\* and submits a new attempt.
C10_ManualRetry ==
    [][\A t \in Threads :
         LET old_job == get_job_by_scheduler_id(db, th[t].h)
         IN  (/\ th[t].pc = "retry_get" /\ th'[t] # th[t]
              /\ old_job # None /\ old_job.state \in Terminal
              /\ old_job.max_retries = 0)
                => th'[t].pc = "submit_sched"]_vars

\* A retry call of some caller is still working on record i.
RetryInFlight(i) ==
    \E t \in Threads : th[t].op = "retry" /\ th[t].job.internal_id = i

\* C11: a granted retry stores a new record under a new internal id with
\* attempt = old attempt + 1 and the old record's max_retries, and leaves the
\* old record as it is; and once retry has returned, the stored attempt of
\* the record it made stays what retry stored, whatever status polls of the
\* new job run alongside.
C11_RetryRecord ==
    [][/\ \A t \in Threads :
            (th[t].pc = "retry_save" /\ th'[t].pc = "idle") =>
                LET new == th[t].job.internal_id
                    old_job == th[t].old
                IN  /\ new # old_job.internal_id
                    /\ db'[new].attempt = old_job.attempt + 1
                    /\ db'[new].max_retries = old_job.max_retries
                    /\ db'[old_job.internal_id] = db[old_job.internal_id]
       /\ \A i \in Ids :
            (db[i] # None /\ root[i] # i /\ ~RetryInFlight(i))
                => db'[i].attempt = db[i].attempt]_vars

\* C12: in every reachable state, every stored record has
\* attempt <= max_retries + 1.
C12_AttemptBound ==
    \A i \in Ids : db[i] # None => db[i].attempt <= db[i].max_retries + 1

\* A retry has returned a record whose attempt is exactly max_retries + 1.
C12_Witness ==
    /\ th["t1"] = Returned("retry", "job")
    /\ \E i \in Ids : /\ db[i] # None
                      /\ root[i] # i
                      /\ db[i].max_retries = MaxRetries
                      /\ db[i].attempt = db[i].max_retries + 1

\* Record i is stored without a scheduler handle.
NoHandle(i) == db[i] # None /\ db[i].job_id = 0

C16_HandleOnlyAfterSubmit ==
    \A i \in Ids :
        db[i] # None =>
            /\ db[i].job_id # 0 => (db[i].job_id = i /\ submitCalls[i] >= 1)
            /\ db[i].state = "pending" => db[i].job_id = 0

\* C17: the record of a job is stored, in state pending, before the
\* backend's submit is called for it, and a job the backend holds (a handle
\* has been given out for it) always has a stored record.
C17_RecordBeforeSubmit ==
    [][\A t \in Threads :
         /\ BackendSubmit(t)
               => /\ db[th[t].job.internal_id] # None
                  /\ db[th[t].job.internal_id].state = "pending"
         /\ (th'[t].pc = "submit_save" /\ th'[t].job.job_id # 0)
               => db'[th'[t].job.internal_id] # None]_vars

\* Caller t is inside a call of wait.
InWait(t) == th[t].pc # "idle" /\ th[t].op \in {"wait", "poll", "poll_rest"}

\* Caller t returns from wait in this step.
WaitReturns(t) == th[t].pc = "wait_rest" /\ th'[t].pc = "idle"

\* Caller t gets the answer of a status call in this step.
StatusReturns(t) == th[t].pc = "status_save" /\ th'[t] # th[t]

\* C13: wait returns a mapping with an entry for every requested id and
\* raises nothing; when it returns without the timeout having expired every
\* returned job is in a terminal state; a job still unfinished when the
\* timeout expires is returned with the state its last status call gave.
C13_WaitResult ==
    [][\A t \in Threads :
         /\ WaitReturns(t)
               => /\ th'[t] = Returned("wait", "results")
                  /\ DOMAIN th[t].results = th[t].job_ids
                  /\ ~th[t].expired
                        => \A j \in th[t].job_ids :
                              th[t].results[j] \in Terminal
         /\ (StatusReturns(t) /\ th[t].op = "poll_rest")
               => /\ th[t].h \in DOMAIN th'[t].results
                  /\ th'[t].results[th[t].h] = th[t].job.state
                  /\ th[t].job.internal_id # 0
                        => db'[th[t].job.internal_id].state = th[t].job.state]_vars

\* A wait over two ids is about to return after its timeout expired, one job
\* terminal and one not.
C13_Witness ==
    /\ th["t1"].pc = "wait_rest"
    /\ th["t1"].pending = {}
    /\ th["t1"].expired
    /\ Cardinality(DOMAIN th["t1"].results) = 2
    /\ \E j, k \in DOMAIN th["t1"].results :
          /\ th["t1"].results[j] \in Terminal
          /\ th["t1"].results[k] \notin Terminal

\* C14: a wait called with an explicit timeout T >= 0 returns.
C14_WaitTerminates ==
    \A t \in MainThread :
        (InWait(t) /\ th[t].timeout # NoTimeout) ~> (th[t].pc = "idle")

\* C18: submit, status, wait, cancel, cancel_all, retry and wait_and_check
\* never remove a stored record; a record leaves the database only in a step
\* of clear_completed, clear_all or delete_job.
C18_NoDeletion ==
    [][\A i \in Ids :
         (db[i] # None /\ db'[i] = None)
            => \E t \in Threads :
                  th'[t].op \in {"clear_completed", "clear_all", "delete_job"}]_vars

\* clear_completed has removed the record of a job that was submitted and
\* polled, and has left another record in place.
C18_Witness ==
    /\ th["t1"] = Returned("clear_completed", "None")
    /\ \E i, k \in Ids : /\ submitCalls[i] = 1
                         /\ db[i] = None
                         /\ db[k] # None

\* C19: in a sweep of wait every pending id is polled, whatever the other
\* polls of the sweep answer, and every requested id is in the result; in
\* cancel_all every active job is taken in turn, whether or not the cancel
\* of another one failed.
C19_BatchIsolation ==
    [][\A t \in Threads :
         /\ (StatusReturns(t) /\ th[t].op = "poll")
               => /\ th'[t].pc = "wait_sweep"
                  /\ th'[t].todo = th[t].todo \ {th[t].h}
                  /\ th[t].pending \ {th[t].h} \subseteq th'[t].pending
         /\ (th[t].pc = "wait_sweep" /\ th'[t].pc = "wait_head")
               => th[t].todo = {}
         /\ WaitReturns(t) => DOMAIN th[t].results = th[t].job_ids
         /\ (th[t].pc = "cancel_all_loop" /\ th'[t] # th[t])
               => IF th[t].todo = {}
                  THEN th'[t] = Returned("cancel_all", th[t].cancelled)
                  ELSE /\ th'[t].pc \in {"cancel_all_loop", "cancel_get"}
                       /\ \E job \in th[t].todo :
                             th'[t].todo = th[t].todo \ {job}
         /\ (th[t].pc \in {"cancel_get", "cancel_save"} /\ th'[t] # th[t]
               /\ th[t].op = "cancel_all")
               => /\ th'[t].pc \in {"cancel_all_loop", "cancel_save"}
                  /\ th'[t].todo = th[t].todo]_vars

\* In the first sweep of a wait, after one job was found failed, another
\* job is being polled.
C19_Witness ==
    /\ th["t1"].pc = "status_sched"
    /\ th["t1"].op = "poll"
    /\ th["t1"].elapsed = 0
    /\ th["t1"].h \notin DOMAIN th["t1"].results
    /\ \E j \in DOMAIN th["t1"].results : th["t1"].results[j] = "failed"

\* C20: the answer unknown is stored as unknown, which is no terminal
\* state; in wait the job stays pending and without a result, the next sweep
\* polls every pending id again, and wait does not return while an id is
\* pending without one more poll.
C20_UnknownIsInconclusive ==
    [][/\ ~is_done([None EXCEPT !.state = to_job_state("unknown")])
       /\ \A t \in Threads :
            /\ (StatusReturns(t) /\ th[t].job.state = "unknown")
                  => /\ th[t].job.internal_id # 0
                           => db'[th[t].job.internal_id].state = "unknown"
                     /\ th[t].op = "poll"
                           => /\ th[t].h \in th'[t].pending
                              /\ th[t].h \notin DOMAIN th'[t].results
            /\ (th[t].pc = "wait_head" /\ th'[t].pc = "wait_sweep")
                  => th'[t].todo = th[t].pending
            /\ (th[t].pc = "wait_head" /\ th'[t].pc = "wait_rest")
                  => th'[t].pending = th[t].pending
            /\ WaitReturns(t) => th[t].pending = {}]_vars

\* A job whose stored state is unknown is polled again in a later sweep.
C20_Witness ==
    /\ th["t1"].pc = "status_sched"
    /\ th["t1"].op = "poll"
    /\ th["t1"].elapsed >= 1
    /\ th["t1"].job.internal_id # 0
    /\ db[th["t1"].job.internal_id].state = "unknown"

\* Caller t returns from cancel in this step.
CancelReturns(t) ==
    th[t].op = "cancel" /\ th[t].pc # "idle" /\ th'[t].pc = "idle"

\* A stored job that is queued, submitted or running.
Live(job) == job # None /\ job.state \in {"pending", "submitted", "running"}

\* C21 as stated: when cancel of a queued, submitted or running job returns,
\* the job is recorded as cancelled.
C21_CancelRecords ==
    [][\A t \in Threads :
         (CancelReturns(t) /\ Live(get_job_by_scheduler_id(db, th[t].h)))
            => get_job_by_scheduler_id(db', th[t].h).state = "cancelled"]_vars

\* C21, amended: cancel calls the backend's cancel once; when that succeeds
\* for a queued, submitted or running job, cancel itself stores the job as
\* cancelled and then returns True; cancel returns False only from a failed
\* backend call.
C21_CancelRecordsOnSuccess ==
    [][\A t \in Threads :
         /\ (CancelReturns(t) /\ th'[t].ret = "True"
               /\ Live(get_job_by_scheduler_id(db, th[t].h)))
               => /\ th[t].pc = "cancel_save"
                  /\ get_job_by_scheduler_id(db', th[t].h).state = "cancelled"
         /\ (th[t].op = "cancel" /\ th[t].pc \in {"cancel_get", "cancel_save"}
               /\ th'[t] # th[t])
               => th'[t].pc \in {"cancel_save", "idle"}
         /\ (CancelReturns(t) /\ th'[t].ret = "False")
               => th[t].pc = "cancel_sched"
         /\ (th[t].pc = "cancel_sched" /\ th'[t] # th[t])
               => th'[t] \in {[th[t] EXCEPT !.pc = "cancel_get"],
                              Returned("cancel", "False")}]_vars

\* cancel has returned True and the job it was given is stored as cancelled.
C21_Witness ==
    /\ th["t1"] = Returned("cancel", "True")
    /\ \E i \in Ids : /\ db[i] # None
                      /\ db[i].job_id # 0
                      /\ db[i].state = "cancelled"

\* C27: the verdict of the log check and the state it maps to are written
\* by the store update that records the terminal state: the log check of
\* wait_and_check, run after the wait has stored the job, makes no store
\* update of its own.
C27_SingleUpdate ==
    [][\A t \in Threads : th[t].pc = "check" => db' = db]_vars

\* C33: retry submits a new attempt only when the stored state of the old
\* job is terminal; a retry of a pending, submitted or running job creates
\* no record and makes no backend submit call.
C33_RetryOnlyTerminal ==
    [][\A t \in Threads :
         (th[t].pc = "retry_get" /\ th'[t].pc = "submit_sched")
            => get_job_by_scheduler_id(db, th[t].h).state \in Terminal]_vars

\* C34: cancel never changes the stored state of a job that is completed or
\* failed, whatever the backend's cancel answers.
C34_CancelKeepsTerminal ==
    [][\A t \in Threads :
         (th[t].op = "cancel" /\ th[t].pc = "cancel_save")
            => \A i \in Ids :
                  (db[i] # None /\ db[i].state \in {"completed", "failed"})
                     => db'[i].state = db[i].state]_vars

\* C36: whenever submit hands a script path to the backend (line 216), the
\* file at that path holds the script that was built for the job being
\* submitted, also when another submit call runs at the same time under the
\* same name.
C36_OwnScriptSubmitted ==
    [][\A t \in Threads :
          (th[t].pc = "submit_sched" /\ th'[t].pc = "submit_save")
          => script[th[t].job.script_path] = th[t].job.internal_id]_vars

\* C37: when the backend's cancel fails, cancel returns False and no step
\* of the call changes the store; when it succeeds for an id that is not
\* stored, cancel returns True and creates no record.
C37_CancelFailure ==
    [][\A t \in Threads :
         /\ (th[t].pc = "idle" /\ th'[t].pc = "cancel_sched") => db' = db
         /\ (th[t].op = "cancel" /\ th[t].pc = "cancel_sched"
             /\ th'[t] # th[t])
               => /\ db' = db
                  /\ th'[t].pc = "idle" => th'[t].ret = "False"
         /\ (CancelReturns(t) /\ th'[t].ret = "False")
               => th[t].pc = "cancel_sched"
         /\ (th[t].op = "cancel" /\ th[t].pc = "cancel_get"
             /\ get_job_by_scheduler_id(db, th[t].h) = None
             /\ th'[t] # th[t])
               => /\ th'[t] = Returned("cancel", "True")
                  /\ db' = db]_vars

\* cancel has returned True while the store holds no record at all.
C37_Witness ==
    /\ th["t1"] = Returned("cancel", "True")
    /\ \A i \in Ids : db[i] = None

(***************************************************************************)
(* Claims about failure classification                                     *)
(***************************************************************************)
\* A non-whitelisted error line is in one of the logs that exist.
HasErrorLine(j) ==
    \E log \in {j.stderr, j.stdout} :
        /\ log.exists
        /\ \E k \in 1..Len(log.lines) :
              matches_error_pattern(log.lines[k])
              /\ ~line_is_whitelisted(log.lines[k])

\* An expected file or pattern has no match.
HasMissingFile(j) == \E k \in 1..Len(j.expected_files) : ~j.expected_files[k]

\* The kind the decision order of the claim gives, first match first.
C6_FirstMatch(j) ==
    IF j.status = "cancelled" THEN "scheduler"
    ELSE IF j.status = "failed" THEN "scheduler"
    ELSE IF j.status = "timeout" THEN "timeout"
    ELSE IF j.exit_code # NoExitCode /\ j.exit_code # 0 THEN "exit_code"
    ELSE IF HasErrorLine(j) THEN "log_error"
    ELSE IF HasMissingFile(j) THEN "missing_file"
    ELSE "None"

\* C6: for every combination of inputs the verdict of detect is the first
\* rule that matches, in the order cancelled, failed, timed out, exit code,
\* non-whitelisted error line in the available logs, missing expected file,
\* not failed; a cancelled job carries the reason "job was cancelled", and
\* the verdict says "failed" exactly when some rule matched.
C6_FirstMatchWins ==
    detection.pc = "done" =>
        /\ detection.verdict.kind = C6_FirstMatch(detection.j)
        /\ detection.verdict.failed = (C6_FirstMatch(detection.j) # "None")
        /\ detection.j.status = "cancelled" =>
              detection.verdict.reason.text = "job was cancelled"

\* C35: a log that cannot be read counts as "no errors found": parse gives
\* has_errors = false for it, parse_multiple gives has_errors = true only
\* if the parse of one of its streams did, and detect gives a log_error
\* verdict only for an error line that is in a log.
C35_UnreadableIsNoError ==
    /\ (detection.pc = "parsed" /\ ~detection.j.stderr.readable)
          => ~detection.result.has_errors
    /\ (detection.pc = "parsed_multiple" /\ detection.result.has_errors)
          => \E log \in {detection.j.stderr, detection.j.stdout} :
                parse(log, DefaultMaxLines).has_errors
    /\ (detection.pc = "done" /\ detection.verdict.kind = "log_error")
          => HasErrorLine(detection.j)

\* C22: one classification call retains at most 50 error lines, each of at
\* most 500 characters, for parse on one stream and for parse_multiple over
\* all the streams of a job.
C22_BoundedEvidence ==
    detection.pc \in {"parsed", "parsed_multiple"}
       => /\ Len(detection.result.error_lines) <= ErrorLinesCap
          /\ \A k \in 1..Len(detection.result.error_lines) :
                detection.result.error_lines[k].len <= TruncateAt

\* The matching lines among the last max_lines lines of a log.
SpecLastLines(lines, max_lines) ==
    IF max_lines >= Len(lines) THEN lines
    ELSE SubSeq(lines, Len(lines) - max_lines + 1, Len(lines))
Matching(lines) ==
    {k \in 1..Len(lines) : matches_error_pattern(lines[k])}
Suppressed(lines) ==
    {k \in Matching(lines) : line_is_whitelisted(lines[k])}

\* C23: parse returns total_errors equal to the number of lines among the
\* last max_lines lines that match an error pattern, and whitelisted_errors
\* equal to the number of those the whitelist suppresses.
C23_ExactCounts ==
    (detection.pc = "parsed" /\ detection.j.stderr.readable)
       => LET scanned == SpecLastLines(detection.j.stderr.lines,
                                       detection.max_lines)
          IN  /\ detection.result.total_errors
                    = Cardinality(Matching(scanned))
              /\ detection.result.whitelisted_errors
                    = Cardinality(Suppressed(scanned))

FailureKinds == {"scheduler", "timeout", "exit_code", "log_error", "missing_file"}
ExistingLogs(j) ==
    (IF j.stderr.exists THEN <<j.stderr>> ELSE <<>>)
    \o (IF j.stdout.exists THEN <<j.stdout>> ELSE <<>>)
IsPrefix(s, r, cap) ==
    /\ Len(s) = (IF Len(r) > cap THEN cap ELSE Len(r))
    /\ \A k \in 1..Len(s) : s[k] = r[k]

\* C24: a verdict with failed=true has a kind and a reason and at most 20
\* evidence lines; evidence lines occur only for kind log_error and are the
\* first retained error lines; a missing_file reason names at most the first
\* 5 missing patterns and counts the others; a verdict with failed=false has
\* no kind, no reason and no evidence lines.
C24_VerdictShape ==
    detection.pc = "done"
       => LET v == detection.verdict
              j == detection.j
              retained == parse_multiple(ExistingLogs(j)).error_lines
              missing == check_expected_files(j.expected_files)
          IN  /\ v.failed
                    => /\ v.kind \in FailureKinds
                       /\ v.reason.text # "None"
                       /\ Len(v.error_lines) <= 20
                       /\ v.kind # "log_error" => v.error_lines = <<>>
                       /\ v.kind = "log_error"
                             => /\ IsPrefix(v.error_lines, retained, 20)
                                /\ v.reason.count = Len(retained)
                       /\ v.kind = "missing_file"
                             => /\ Len(v.reason.names) <= 5
                                /\ IsPrefix(v.reason.names, missing, 5)
                                /\ v.reason.count
                                      = Len(missing) - Len(v.reason.names)
              /\ ~v.failed
                    => /\ v.kind = "None"
                       /\ v.reason.text = "None"
                       /\ v.error_lines = <<>>

\* A log_error verdict whose evidence is cut at 20 lines.
C24_Witness ==
    /\ detection.pc = "done"
    /\ detection.verdict.kind = "log_error"
    /\ Len(detection.verdict.error_lines) = 20
    /\ detection.verdict.reason.count > 20

\* The job's available logs hold no error line that is not whitelisted.
NoErrorLine(log) ==
    \A k \in 1..Len(log.lines) :
       matches_error_pattern(log.lines[k]) => line_is_whitelisted(log.lines[k])
AllExist(expected_files) ==
    \A k \in 1..Len(expected_files) : expected_files[k]
CleanJob(j) ==
    /\ j.status = "completed"
    /\ j.exit_code \in {NoExitCode, 0}
    /\ NoErrorLine(j.stderr) /\ NoErrorLine(j.stdout)
    /\ AllExist(j.expected_files)

\* C25: a completed job with exit code absent or zero, no error line that is
\* not whitelisted in its available logs (any set of log files, none
\* included) and all expected files present gets no failure verdict from
\* detect and a successful log check, which is what makes wait_and_check
\* keep it completed.
C25_SuccessPath ==
    (detection.pc \in {"done", "checked"} /\ CleanJob(detection.j))
       => /\ detection.pc = "done" => ~detection.verdict.failed
          /\ (detection.pc = "checked" /\ NoErrorLine(detection.log))
                => detection.result.success

HasWhitelistedLine(log) ==
    \E k \in 1..Len(log.lines) : line_is_whitelisted(log.lines[k])

\* A clean job with exit code 0 whose logs hold a whitelisted error line.
WhitelistedOnly(d) ==
    /\ CleanJob(d.j) /\ d.j.exit_code = 0
    /\ d.pc = "checked" => NoErrorLine(d.log)
    /\ \/ HasWhitelistedLine(d.j.stderr)
       \/ HasWhitelistedLine(d.j.stdout)
       \/ d.pc = "checked" /\ HasWhitelistedLine(d.log)

\* The lines a call has retained.
RetainedLines ==
    IF detection.pc \in {"parsed", "parsed_multiple", "checked"}
    THEN detection.result.error_lines
    ELSE IF detection.pc = "done" THEN detection.verdict.error_lines
    ELSE <<>>

\* C26: a line the whitelist suppresses is never retained as an error or
\* evidence line, and a job whose only error-pattern lines are whitelisted,
\* with exit code 0 and all expected files present, gets no log_error
\* verdict and no unsuccessful log check.
C26_WhitelistSuppresses ==
    /\ \A k \in 1..Len(RetainedLines) :
          RetainedLines[k].kind # "whitelisted_error"
    /\ WhitelistedOnly(detection)
          => /\ detection.pc = "done" => ~detection.verdict.failed
             /\ detection.pc = "checked" => detection.result.success

(***************************************************************************)
(* Claims about the store                                                  *)
(***************************************************************************)
AddJobStep ==
    /\ store'.call.op = "add_job"
    /\ store' # store
    /\ store'.call.arg.id \notin RowIds(store.jobs)

\* C28: add_job of a job whose id is not stored succeeds, and get_job of
\* that id then returns a job equal to the one given, dependency lists
\* included; get_job of an id that is not stored returns nothing.
C28_RoundTrip ==
    [][/\ AddJobStep
          => /\ store'.call.ret = "None"
             /\ get_job(store', store'.call.arg.id) = store'.call.arg
       /\ (store'.call.op = "get_job"
           /\ store'.call.arg \notin RowIds(store'.jobs))
          => store'.call.ret = NoStoreJob]_vars

PositionIn(list, id) == CHOOSE k \in 1..Len(list) : list[k].id = id

\* C29: list_jobs() with no filter returns the stored jobs in insertion
\* order.
C29_InsertionOrder ==
    (/\ store.call.op = "list_jobs"
     /\ store.call.arg = [status |-> "None", limit |-> 0])
       => /\ RowIds(store.call.ret) = RowIds(store.jobs)
          /\ \A a, b \in 1..Len(store.jobs) :
                a < b => PositionIn(store.call.ret, store.jobs[a].id)
                            < PositionIn(store.call.ret, store.jobs[b].id)

\* C30: every row of the dependencies table names a predecessor that is in
\* the jobs table, and get_dependents of an id that is not in the jobs
\* table returns no job.
C30_ReferentialIntegrity ==
    /\ \A e \in store.deps : e.depends_on \in RowIds(store.jobs)
    /\ (store.call.op = "get_dependents"
        /\ store.call.arg \notin RowIds(store.jobs))
          => store.call.ret = <<>>

UpdateJobStep ==
    /\ store'.call.op = "update_job"
    /\ store' # store
RowOf(jobs, id) == CHOOSE r \in Elements(jobs) : r.id = id
OthersUnchanged(id) ==
    /\ Len(store'.jobs) = Len(store.jobs)
    /\ \A k \in 1..Len(store.jobs) :
          /\ store'.jobs[k].id = store.jobs[k].id
          /\ store.jobs[k].id # id => store'.jobs[k] = store.jobs[k]
    /\ store'.deps = store.deps

FirstState(states) ==
    IF \E k \in 1..Len(states) : states[k] # ""
    THEN states[CHOOSE k \in 1..Len(states) :
                   states[k] # "" /\ \A i \in 1..(k - 1) : states[i] = ""]
    ELSE ""
ReportedState(c) ==
    IF c.squeue.found /\ c.squeue.returncode = 0 /\ c.squeue.stdout[1] # ""
    THEN c.squeue.stdout[1]
    ELSE IF c.squeue.found /\ c.sacct.found /\ c.sacct.returncode = 0
    THEN FirstState(c.sacct.stdout)
    ELSE ""

\* C32: a SLURM job reported CANCELLED is given cancelled, TIMEOUT is given
\* timed_out, FAILED or NODE_FAIL is given failed, COMPLETED is given
\* completed.
C32_GranularMapping ==
    scheduler.pc = "done"
       => LET state == ReportedState(scheduler)
          IN  /\ state = "CANCELLED" => scheduler.ret = "cancelled"
              /\ state = "TIMEOUT" => scheduler.ret = "timed_out"
              /\ state \in {"FAILED", "NODE_FAIL"} => scheduler.ret = "failed"
              /\ state = "COMPLETED" => scheduler.ret = "completed"

(***************************************************************************)
(* Claims about whitelist matching                                         *)
(***************************************************************************)
\* The distinct lowercase words a phrase shares with a line.
SharedLower(phrase, line) == word_set(lower(phrase)) \cap word_set(lower(line))

\* Some phrase of the whitelist shares at least threshold distinct lowercase
\* words with the line.
SomePhraseShares(line, whitelist, threshold) ==
    \E k \in 1..Len(whitelist) :
        Cardinality(SharedLower(whitelist[k], line)) >= threshold

Swapped(text) ==
    {[text EXCEPT ![k] = text[k + 1], ![k + 1] = text[k]] :
        k \in 1..(Len(text) - 1)}
Repeated(text) ==
    IF 0 < Len(text) /\ Len(text) < MaxWords
    THEN {Append(text, text[1])} ELSE {}
other_case(w) == IF w = "a" THEN "A" ELSE IF w = "A" THEN "a" ELSE w
Recased(text) ==
    IF 0 < Len(text) /\ other_case(text[1]) # text[1]
    THEN {[text EXCEPT ![1] = other_case(text[1])]} ELSE {}
Reworded(text) == Swapped(text) \cup Repeated(text)
RewordedAnyCase(text) == Reworded(text) \cup Recased(text)

\* No phrase of the whitelist has as many distinct words as the threshold.
AllPhrasesShort(whitelist, threshold) ==
    \A k \in 1..Len(whitelist) :
        Cardinality(word_set(whitelist[k])) < threshold

\* Neither matcher, in any setting, suppressed the line.
NoneSuppressed ==
    /\ ~matching.log_checker
    /\ \A case_sensitive \in BOOLEAN : ~matching.log_parser[case_sensitive]

\* log_checker.is_whitelisted gives the answer it gave when the line, or one
\* phrase, is replaced by one of its variants.
CheckerStable(Variants(_)) ==
    /\ \A line \in Variants(matching.line) :
          is_whitelisted(line, matching.whitelist, matching.threshold)
             = matching.log_checker
    /\ \A k \in 1..Len(matching.whitelist) :
          \A phrase \in Variants(matching.whitelist[k]) :
             is_whitelisted(matching.line,
                            [matching.whitelist EXCEPT ![k] = phrase],
                            matching.threshold)
                = matching.log_checker

\* The same for log_parser.is_whitelisted of a parser with this setting.
ParserStable(case_sensitive, Variants(_)) ==
    /\ \A line \in Variants(matching.line) :
          log_parser_is_whitelisted(matching.whitelist, matching.threshold,
                                    case_sensitive, line)
             = matching.log_parser[case_sensitive]
    /\ \A k \in 1..Len(matching.whitelist) :
          \A phrase \in Variants(matching.whitelist[k]) :
             log_parser_is_whitelisted(
                [matching.whitelist EXCEPT ![k] = phrase],
                matching.threshold, case_sensitive, matching.line)
                = matching.log_parser[case_sensitive]

C39_MatchersAgree ==
    matching.pc = "done" => matching.log_checker = matching.log_parser[FALSE]

\* Both matchers suppressed a line that the case-sensitive parser kept.
C39_Witness ==
    /\ matching.pc = "done"
    /\ matching.log_checker
    /\ matching.log_parser[FALSE]
    /\ ~matching.log_parser[TRUE]

====
